---- MODULE Spec2Model ----
(***************************************************************************)
(* Model of the go-apc protocol engine (package apc): NewClient, the       *)
(* Frame Reader goroutine (readEvents), the Session Loop (Start), Stop,    *)
(* and the Notification Sink.  The command invocation path (request        *)
(* registration, invoke id pool) is not part of the visible source and is  *)
(* modelled from sections 3, 4.3 and 4.4 of the specification.             *)
(*                                                                         *)
(* Go channel semantics used throughout:                                   *)
(*   - an unbuffered channel is a rendezvous: one action moves both the    *)
(*     sender and the receiver;                                            *)
(*   - a buffered channel is a bounded queue, a send blocks while full;    *)
(*   - a send on a closed channel and a close of a closed channel panic,   *)
(*     and an unrecovered panic in any goroutine ends the whole process    *)
(*     (crashed = TRUE disables every action).                             *)
(***************************************************************************)
EXTENDS Naturals, Sequences, FiniteSets

(* ---------------- bounds of the model ---------------- *)
\* capacity of c.events; the program uses 128 (main.go:295), scaled down
EventsCap == 1
\* capacity of c.notification; the program uses 128 (main.go:296), scaled down
NotifCap == 1
\* size of the invoke id pool
NumIDs == 2
\* number of concurrent command invocations
NumCallers == 2
\* number of concurrent Stop calls
NumStoppers == 2
\* number of chunks the server delivers before the stream falls silent
MaxReads == 3

(* ---------------- program constants ---------------- *)
ConnOK == 0
ConnClosed == 1

IDs == 1..NumIDs
Callers == 1..NumCallers
Stoppers == 1..NumStoppers

(* ---------------- events ---------------- *)
\* An Event as far as the engine inspects it: Type and InvokeID are read by
\* Start, Keyword and IsStart() by NewClient.
Ev(t, i, k, s) == [Type |-> t, InvokeID |-> i, Keyword |-> k, Start |-> s]
NoEvent == Ev("-", 0, "-", FALSE)
EventTypeNotification == "N"
EventTypeResponse == "R"

\* The first decoded record is the only one whose Keyword/IsStart are inspected.
FirstEvents ==
    { Ev(EventTypeNotification, 0, "AGTSTART", TRUE),
      Ev(EventTypeNotification, 0, "AGTSTART", FALSE),
      Ev(EventTypeNotification, 0, "ERROR", TRUE),
      Ev(EventTypeNotification, 0, "ERROR", FALSE) }
\* The invokeId field of a Notification: absent (0), or a number that may
\* coincide with the id of a pending command.
NotifIDs == {0} \cup {i \in IDs : i <= 1}

\* Later records: only Type and InvokeID are inspected.
LaterEvents ==
    { Ev(EventTypeNotification, i, "NOTIFY", FALSE) : i \in NotifIDs } \cup
    { Ev(EventTypeResponse, i, "RESP", FALSE) : i \in IDs }

IsStart(e) == e.Start

\* I/O failures of decoder.Read; the error value itself is only logged
\* (main.go:307-311), so it is not kept.
ReadFailures == {"eof", "read_error", "timeout"}

VARIABLES
    state,          \* c.state
    connClosed,     \* c.conn.Close() has been called
    events,         \* c.events, buffered
    eventsClosed,
    notification,   \* c.notification, buffered
    notifClosed,
    requests,       \* c.requests: id -> caller owning the request (0: no entry)
    allocated,      \* ids held out of c.invokeIDPool
    rpc, rev,       \* Frame Reader goroutine: position, decoded event
    nreads,         \* chunks delivered by the server so far
    decodedAny,     \* some record has been decoded already
    malformedSeen,  \* a malformed record has been skipped
    recovered,      \* a record was enqueued after a malformed one was skipped
    npc,            \* NewClient: "await" | "ok" | "failed"
    spc, sev, sreq, \* Start: position, event in hand, request in hand
    visited,        \* ids the range loop of the drain has produced or skipped
    tpc,            \* Stop calls
    cpc, cid, cgot, cres,  \* command invocations
    kpc,            \* consumer of Notifications()
    crashed,        \* the process died of a panic / fatal runtime error
    nStore, nCloseNotif, nCloseEvents, \* how often each shutdown step ran
    \* history of the event path, recorded while tracing
    tracing,        \* the history below is being recorded
    nDecoded,       \* records decoded so far; a record's arrival number
    evTags,         \* arrival numbers of the events in c.events
    taken,          \* arrival numbers in the order they left c.events
    sevTag,         \* arrival number of the event Start took last
    notifTaken,     \* arrival numbers of the Notifications Start took
    sinkTags,       \* arrival numbers of the events in c.notification
    sunk,           \* arrival numbers in the order they entered the sink
    dropped,        \* Start has dropped an unmatched Response
    \* one pass of the read loop over a chunk of bytes (framing)
    buf,            \* the chunk decoder.Read returned last
    rawEvent,       \* the text handed to decodeEvent for it (<< >>: none)
    carried         \* bytes of the unterminated chunks read just before it

histVars == << tracing, nDecoded, evTags, taken, sevTag, notifTaken,
               sinkTags, sunk, dropped >>
frameVars == << buf, rawEvent, carried >>

vars == << histVars, frameVars, state, connClosed, events, eventsClosed, notification,
           notifClosed, requests, allocated, rpc, rev, nreads, decodedAny,
           malformedSeen, recovered, npc, spc, sev, sreq, visited, tpc,
           cpc, cid, cgot, cres, kpc, crashed, nStore, nCloseNotif, nCloseEvents >>

connVars == << state, connClosed >>
chanVars == << events, eventsClosed, notification, notifClosed >>
tableVars == << requests, allocated >>
readerVars == << rpc, rev, nreads, decodedAny, malformedSeen, recovered >>
startVars == << spc, sev, sreq, visited >>
callerVars == << cpc, cid, cgot, cres >>
countVars == << nStore, nCloseNotif, nCloseEvents >>

\* State right after  c := &Client{...}; go func(){ c.readEvents() ... }()
ClientInit ==
    /\ state = ConnOK
    /\ connClosed = FALSE
    /\ events = << >>
    /\ eventsClosed = FALSE
    /\ notification = << >>
    /\ notifClosed = FALSE
    /\ requests = [i \in IDs |-> 0]
    /\ allocated = {}
    /\ rpc = "read" /\ rev = NoEvent
    /\ nreads = 0
    /\ decodedAny = FALSE
    /\ malformedSeen = FALSE
    /\ recovered = FALSE
    /\ npc = "await"
    /\ spc = "not_started" /\ sev = NoEvent /\ sreq = 0
    /\ visited = {}
    /\ tpc = [t \in Stoppers |-> "idle"]
    /\ cpc = [c \in Callers |-> "idle"]
    /\ cid = [c \in Callers |-> 0]
    /\ cgot = [c \in Callers |-> NoEvent]
    /\ cres = [c \in Callers |-> "none"]
    /\ kpc = "reading"
    /\ crashed = FALSE
    /\ nStore = 0 /\ nCloseNotif = 0 /\ nCloseEvents = 0

HistInit ==
    /\ nDecoded = 0
    /\ evTags = << >> /\ taken = << >> /\ sevTag = 0
    /\ notifTaken = << >> /\ sinkTags = << >> /\ sunk = << >>
    /\ dropped = FALSE

FrameInit == buf = << >> /\ rawEvent = << >> /\ carried = << >>

Init == ClientInit /\ HistInit /\ FrameInit /\ tracing = FALSE

\* The same program, with the history of the event path recorded.
TracedInit == ClientInit /\ HistInit /\ FrameInit /\ tracing = TRUE

\* What a step of the program adds to the history.  c.events and
\* c.notification change by one element per step: a longer queue got the
\* sender's event appended, a shorter one lost its head.
Observe ==
    /\ UNCHANGED << tracing, frameVars >>
    /\ IF ~tracing
         THEN UNCHANGED << nDecoded, evTags, taken, sevTag, notifTaken,
                           sinkTags, sunk, dropped >>
         ELSE LET put   == Len(events') > Len(events)
                  took  == Len(events') < Len(events)
                  stook == took /\ spc = "select"
                  sank  == Len(notification') > Len(notification)
                  read  == Len(notification') < Len(notification)
              IN /\ nDecoded' = IF rpc = "read" /\ rpc' = "enqueue"
                                  THEN nDecoded + 1 ELSE nDecoded
                 /\ evTags' = IF put THEN Append(evTags, nDecoded)
                              ELSE IF took THEN Tail(evTags) ELSE evTags
                 /\ taken' = IF took THEN Append(taken, Head(evTags))
                             ELSE taken
                 /\ sevTag' = IF stook THEN Head(evTags) ELSE sevTag
                 /\ notifTaken' =
                       IF stook /\ Head(events).Type = EventTypeNotification
                         THEN Append(notifTaken, Head(evTags))
                         ELSE notifTaken
                 /\ sinkTags' = IF sank THEN Append(sinkTags, sevTag)
                                ELSE IF read THEN Tail(sinkTags)
                                ELSE sinkTags
                 /\ sunk' = IF sank THEN Append(sunk, sevTag) ELSE sunk
                 /\ dropped' =
                       (dropped \/ (/\ stook
                                    /\ Head(events).Type # EventTypeNotification
                                    /\ spc' = "select"))


(* ======================= Frame Reader (readEvents) ======================= *)

\* What the stream can carry next: only the first decoded record is ever
\* inspected for Keyword/IsStart (NewClient), the later ones for Type/InvokeID.
StreamEvents == IF decodedAny THEN LaterEvents ELSE FirstEvents

\* c.conn.SetDeadline fails: readEvents logs and returns the error; the
\* goroutine goes on to report it.  (opts.Timeout is taken as configured:
\* without it this failure and the deadline expiry below do not occur and
\* the behaviours are a subset of the ones modelled.)
ReadSetDeadlineFails ==
    /\ ~crashed /\ rpc = "read"
    /\ rpc' = "report"
    /\ UNCHANGED << connVars, chanVars, tableVars, rev, nreads,
                    decodedAny, malformedSeen, recovered, npc, startVars, tpc,
                    callerVars, kpc, crashed, countVars >>
    /\ Observe

\* decoder.Read returns an error (EOF, read error, deadline expiry).
ReadFails(f) ==
    /\ ~crashed /\ rpc = "read"
    /\ f \in ReadFailures
    /\ rpc' = "report"
    /\ UNCHANGED << connVars, chanVars, tableVars, rev, nreads,
                    decodedAny, malformedSeen, recovered, npc, startVars, tpc,
                    callerVars, kpc, crashed, countVars >>
    /\ Observe

\* decoder.Read on a connection the Session Loop has closed: fails promptly.
ReadOnClosed ==
    /\ connClosed
    /\ ReadFails("read_error")

\* A well-formed terminated record: decoded, then the goroutine is at
\* `c.events <- event`.
ReadRecord(e) ==
    /\ ~crashed /\ rpc = "read" /\ ~connClosed /\ nreads < MaxReads
    /\ e \in StreamEvents
    /\ rpc' = "enqueue" /\ rev' = e /\ decodedAny' = TRUE
    /\ nreads' = nreads + 1
    /\ UNCHANGED << connVars, chanVars, tableVars,
                    malformedSeen, recovered, npc, startVars, tpc, callerVars,
                    kpc, crashed, countVars >>
    /\ Observe

\* Faulty variant of ReadMalformed: the decode error ends the reader.
ReadMalformedStops ==
    /\ ~crashed /\ rpc = "read" /\ ~connClosed /\ nreads < MaxReads
    /\ rpc' = "report"
    /\ malformedSeen' = TRUE
    /\ nreads' = nreads + 1
    /\ UNCHANGED << connVars, chanVars, tableVars, rev, decodedAny,
                    recovered, npc, startVars, tpc, callerVars, kpc, crashed,
                    countVars >>
    /\ Observe

\* A terminated record that decodeEvent rejects: logged, `continue`.
ReadMalformed ==
    /\ ~crashed /\ rpc = "read" /\ ~connClosed /\ nreads < MaxReads
    /\ malformedSeen' = TRUE
    /\ nreads' = nreads + 1
    /\ UNCHANGED << connVars, chanVars, tableVars, rpc, rev,
                    decodedAny, recovered, npc, startVars, tpc, callerVars, kpc,
                    crashed, countVars >>
    /\ Observe

\* A chunk whose last byte is neither ETX nor ETB: the if is skipped and the
\* buffer dropped at the next iteration.
ReadUnterminated ==
    /\ ~crashed /\ rpc = "read" /\ ~connClosed /\ nreads < MaxReads
    /\ nreads' = nreads + 1
    /\ UNCHANGED << connVars, chanVars, tableVars, rpc, rev,
                    decodedAny, malformedSeen, recovered, npc, startVars, tpc,
                    callerVars, kpc, crashed, countVars >>
    /\ Observe

\* `c.events <- event`: blocks while the queue is full, panics once it is
\* closed.
Enqueue ==
    /\ ~crashed /\ rpc = "enqueue"
    /\ IF eventsClosed
         THEN /\ crashed' = TRUE
              /\ UNCHANGED << events, rpc, rev, recovered >>
         ELSE /\ Len(events) < EventsCap
              /\ events' = Append(events, rev)
              /\ rpc' = "read" /\ rev' = NoEvent
              /\ recovered' = (recovered \/ malformedSeen)
              /\ UNCHANGED crashed
    /\ UNCHANGED << connVars, eventsClosed, notification,
                    notifClosed, tableVars, nreads, decodedAny,
                    malformedSeen, npc, startVars, tpc, callerVars, kpc,
                    countVars >>
    /\ Observe

(* ============================== NewClient ============================== *)

\* The check of the first event (main.go:321-322), negated.
HandshakeOK(e) == ~(e.Keyword # "AGTSTART" \/ ~IsStart(e))

\* `event := <-c.events`, then the check; on failure NewClient returns
\* (nil, ErrHelloNotReceived) and does nothing else.
NewClientRecv ==
    /\ ~crashed /\ npc = "await"
    /\ events # << >>
    /\ events' = Tail(events)
    /\ npc' = IF HandshakeOK(Head(events)) THEN "ok" ELSE "failed"
    /\ UNCHANGED << connVars, eventsClosed, notification,
                    notifClosed, tableVars, readerVars, startVars, tpc,
                    callerVars, kpc, crashed, countVars >>
    /\ Observe


(* ========================= Session Loop (Start) ========================= *)

\* main.go:38 -- the caller runs client.Start() once, on the client NewClient
\* returned.
StartCall ==
    /\ ~crashed /\ npc = "ok" /\ spc = "not_started"
    /\ spc' = "select"
    /\ UNCHANGED << connVars, chanVars, tableVars, readerVars, npc,
                    sev, sreq, visited, tpc, callerVars, kpc, crashed,
                    countVars >>
    /\ Observe

\* Faulty variant of Lookup: correlation by issue order (the lowest pending
\* id) instead of by the event's invoke id.
LookupByIssueOrder(e) ==
    IF \E i \in IDs : requests[i] # 0
      THEN requests[CHOOSE i \in IDs :
                      /\ requests[i] # 0
                      /\ \A j \in IDs : requests[j] # 0 => i <= j]
      ELSE 0

\* r, ok := c.requests[event.InvokeID]   (0: not ok)
Lookup(e) == IF e.InvokeID \in IDs THEN requests[e.InvokeID] ELSE 0

\* A loop that passes what it cannot match on to the sink.
StartRecvEventForwardsUnmatched ==
    /\ ~crashed /\ spc = "select"
    /\ events # << >>
    /\ events' = Tail(events)
    /\ LET event == Head(events) IN
         IF event.Type = EventTypeNotification \/ Lookup(event) = 0
           THEN /\ spc' = "notify" /\ sev' = event /\ UNCHANGED sreq
           ELSE /\ spc' = "deliver" /\ sev' = event /\ sreq' = Lookup(event)
    /\ UNCHANGED << connVars, eventsClosed, notification,
                    notifClosed, tableVars, readerVars, npc, visited, tpc,
                    callerVars, kpc, crashed, countVars >>
    /\ Observe

\* A loop without the test of event.Type: every event is looked up first.
StartRecvEventUntyped ==
    /\ ~crashed /\ spc = "select"
    /\ events # << >>
    /\ events' = Tail(events)
    /\ LET event == Head(events) IN
         IF Lookup(event) # 0
           THEN /\ spc' = "deliver" /\ sev' = event /\ sreq' = Lookup(event)
           ELSE IF event.Type = EventTypeNotification
             THEN /\ spc' = "notify" /\ sev' = event /\ UNCHANGED sreq
             ELSE /\ UNCHANGED << spc, sev, sreq >>
    /\ UNCHANGED << connVars, eventsClosed, notification,
                    notifClosed, tableVars, readerVars, npc, visited, tpc,
                    callerVars, kpc, crashed, countVars >>
    /\ Observe

\* case event := <-c.events: a Notification goes to the sink (the loop is then
\* at `c.notification <- event`); anything else is looked up under the read
\* lock and, when found, the loop is at `r.eventChan <- event`.
StartRecvEvent ==
    /\ ~crashed /\ spc = "select"
    /\ events # << >>
    /\ events' = Tail(events)
    /\ LET event == Head(events) IN
         IF event.Type = EventTypeNotification
           THEN /\ spc' = "notify" /\ sev' = event /\ UNCHANGED sreq
           ELSE IF Lookup(event) # 0
             THEN /\ spc' = "deliver" /\ sev' = event /\ sreq' = Lookup(event)
             ELSE /\ UNCHANGED << spc, sev, sreq >>
    /\ UNCHANGED << connVars, eventsClosed, notification,
                    notifClosed, tableVars, readerVars, npc, visited, tpc,
                    callerVars, kpc, crashed, countVars >>
    /\ Observe

\* A loop that never waits for the consumer: an event that finds the sink
\* full is thrown away.
StartSendNotificationLossy ==
    /\ ~crashed /\ spc = "notify"
    /\ IF notifClosed
         THEN /\ crashed' = TRUE
              /\ UNCHANGED << notification, spc, sev >>
         ELSE /\ notification' = IF Len(notification) < NotifCap
                                   THEN Append(notification, sev)
                                   ELSE notification
              /\ spc' = "select" /\ sev' = NoEvent
              /\ UNCHANGED crashed
    /\ UNCHANGED << connVars, events, eventsClosed, notifClosed,
                    tableVars, readerVars, npc, sreq, visited, tpc, callerVars,
                    kpc, countVars >>
    /\ Observe

\* c.notification <- event   (blocks while the sink is full)
StartSendNotification ==
    /\ ~crashed /\ spc = "notify"
    /\ IF notifClosed
         THEN /\ crashed' = TRUE
              /\ UNCHANGED << notification, spc, sev >>
         ELSE /\ Len(notification) < NotifCap
              /\ notification' = Append(notification, sev)
              /\ spc' = "select" /\ sev' = NoEvent
              /\ UNCHANGED crashed
    /\ UNCHANGED << connVars, events, eventsClosed, notifClosed,
                    tableVars, readerVars, npc, sreq, visited, tpc, callerVars,
                    kpc, countVars >>
    /\ Observe

\* r.eventChan <- event: a rendezvous with the invocation that owns r, which
\* must be waiting on its completion channels.
StartDeliver ==
    /\ ~crashed /\ spc = "deliver"
    /\ cpc[sreq] = "waiting"
    /\ cpc' = [cpc EXCEPT ![sreq] = "leaving"]
    /\ cgot' = [cgot EXCEPT ![sreq] = sev]
    /\ cres' = [cres EXCEPT ![sreq] = "event"]
    /\ spc' = "select" /\ sev' = NoEvent /\ sreq' = 0
    /\ UNCHANGED << connVars, chanVars, tableVars, readerVars, npc,
                    visited, tpc, cid, kpc, crashed, countVars >>
    /\ Observe

\* case <-c.shutdown, the sender being the reader goroutine (main.go:313),
\* which then ends.
StartRecvShutdownFromReader ==
    /\ ~crashed /\ spc = "select"
    /\ rpc = "report"
    /\ rpc' = "exited"
    /\ spc' = "store"
    /\ UNCHANGED << connVars, chanVars, tableVars, rev,
                    nreads, decodedAny, malformedSeen, recovered, npc, sev,
                    sreq, visited, tpc, callerVars, kpc, crashed, countVars >>
    /\ Observe

\* A loop that simply returns when it is told to stop.
StartReturnsOnStop(t) ==
    /\ ~crashed /\ spc = "select"
    /\ tpc[t] = "sending"
    /\ tpc' = [tpc EXCEPT ![t] = "returned"]
    /\ spc' = "returned"
    /\ UNCHANGED << connVars, chanVars, tableVars, readerVars, npc,
                    sev, sreq, visited, callerVars, kpc, crashed, countVars >>
    /\ Observe

\* case <-c.shutdown, the sender being a Stop call, which then returns.
StartRecvShutdownFromStop(t) ==
    /\ ~crashed /\ spc = "select"
    /\ tpc[t] = "sending"
    /\ tpc' = [tpc EXCEPT ![t] = "returned"]
    /\ spc' = "store"
    /\ UNCHANGED << connVars, chanVars, tableVars, readerVars, npc,
                    sev, sreq, visited, callerVars, kpc, crashed, countVars >>
    /\ Observe

\* A shutdown that starts with c.conn.Close() and never publishes the state.
StartClosesConnFirst ==
    /\ ~crashed /\ spc = "store"
    /\ connClosed' = TRUE
    /\ nStore' = nStore + 1
    /\ spc' = "close_conn"
    /\ UNCHANGED << state, chanVars, tableVars, readerVars,
                    npc, sev, sreq, visited, tpc, callerVars, kpc, crashed,
                    nCloseNotif, nCloseEvents >>
    /\ Observe

\* c.state.Store(ConnClosed)
StartStoreClosed ==
    /\ ~crashed /\ spc = "store"
    /\ state' = ConnClosed
    /\ nStore' = nStore + 1
    /\ spc' = "close_conn"
    /\ UNCHANGED << connClosed, chanVars, tableVars, readerVars,
                    npc, sev, sreq, visited, tpc, callerVars, kpc, crashed,
                    nCloseNotif, nCloseEvents >>
    /\ Observe

\* c.conn.Close()
StartCloseConn ==
    /\ ~crashed /\ spc = "close_conn"
    /\ connClosed' = TRUE
    /\ spc' = "close_notification"
    /\ UNCHANGED << state, chanVars, tableVars, readerVars, npc,
                    sev, sreq, visited, tpc, callerVars, kpc, crashed,
                    countVars >>
    /\ Observe

\* close(c.notification)   (closing a closed channel panics)
StartCloseNotification ==
    /\ ~crashed /\ spc = "close_notification"
    /\ nCloseNotif' = nCloseNotif + 1
    /\ IF notifClosed
         THEN crashed' = TRUE /\ UNCHANGED << notifClosed, spc >>
         ELSE notifClosed' = TRUE /\ spc' = "close_events" /\ UNCHANGED crashed
    /\ UNCHANGED << connVars, events, eventsClosed, notification,
                    tableVars, readerVars, npc, sev, sreq, visited, tpc,
                    callerVars, kpc, nStore, nCloseEvents >>
    /\ Observe

\* close(c.events), then the range over c.requests begins
StartCloseEvents ==
    /\ ~crashed /\ spc = "close_events"
    /\ nCloseEvents' = nCloseEvents + 1
    /\ IF eventsClosed
         THEN crashed' = TRUE /\ UNCHANGED << eventsClosed, spc, visited >>
         ELSE /\ eventsClosed' = TRUE /\ spc' = "drain" /\ visited' = {}
              /\ UNCHANGED crashed
    /\ UNCHANGED << connVars, events, notification, notifClosed,
                    tableVars, readerVars, npc, sev, sreq, tpc, callerVars,
                    kpc, nStore, nCloseNotif >>
    /\ Observe

\* Entries the range loop has still to produce.
Unvisited == { i \in IDs : requests[i] # 0 /\ i \notin visited }

\* for _, r := range c.requests: the next entry; the loop is then at
\* `r.done <- struct{}{}`.  (No lock is taken.)
StartDrainNext(i) ==
    /\ ~crashed /\ spc = "drain"
    /\ i \in Unvisited
    /\ sreq' = requests[i]
    /\ visited' = visited \cup {i}
    /\ spc' = "signal"
    /\ UNCHANGED << connVars, chanVars, tableVars, readerVars, npc,
                    sev, tpc, callerVars, kpc, crashed, countVars >>
    /\ Observe

\* r.done <- struct{}{}: a rendezvous with the invocation that owns r.
StartSignal ==
    /\ ~crashed /\ spc = "signal"
    /\ cpc[sreq] = "waiting"
    /\ cpc' = [cpc EXCEPT ![sreq] = "leaving"]
    /\ cres' = [cres EXCEPT ![sreq] = "closed"]
    /\ spc' = "drain" /\ sreq' = 0
    /\ UNCHANGED << connVars, chanVars, tableVars, readerVars, npc,
                    sev, visited, tpc, cid, cgot, kpc, crashed, countVars >>
    /\ Observe

\* Faulty variant of StartReturn: the `return` is missing and the loop goes
\* back to its select.
StartReturnMissing ==
    /\ ~crashed /\ spc = "drain"
    /\ Unvisited = {}
    /\ spc' = "select"
    /\ UNCHANGED << connVars, chanVars, tableVars, readerVars, npc,
                    sev, sreq, visited, tpc, callerVars, kpc, crashed,
                    countVars >>
    /\ Observe

\* the range is exhausted: return ErrConnectionClosed
StartReturn ==
    /\ ~crashed /\ spc = "drain"
    /\ Unvisited = {}
    /\ spc' = "returned"
    /\ UNCHANGED << connVars, chanVars, tableVars, readerVars, npc,
                    sev, sreq, visited, tpc, callerVars, kpc, crashed,
                    countVars >>
    /\ Observe

(* ================================ Stop ================================ *)

\* A Stop call reaches `c.shutdown <- struct{}{}` (unbuffered: it returns
\* only in StartRecvShutdownFromStop).
StopCall(t) ==
    /\ ~crashed /\ npc = "ok"
    /\ tpc[t] = "idle"
    /\ tpc' = [tpc EXCEPT ![t] = "sending"]
    /\ UNCHANGED << connVars, chanVars, tableVars, readerVars, npc,
                    startVars, callerVars, kpc, crashed, countVars >>
    /\ Observe


(* ================= Command invocation (spec 4.3, 4.4) ================= *)
(* Not in the visible source.  Modelled from the specification: acquire   *)
(* an id, register under the table lock, write, block on the completion   *)
(* channels (request.eventChan / request.done, main.go:234-237, taken as  *)
(* unbuffered) or a cancellation, then remove and release on every exit.  *)
(* The load of c.state and the insert into c.requests are two memory      *)
(* operations; whatever lock the invocation holds around them, Start      *)
(* takes none for its Store (main.go:349) nor for its range               *)
(* (main.go:361), so Start's steps interleave between the two.            *)

\* Entry: a Closed connection fails the call at once (the connection-closed
\* error, recorded as "closed_at_entry" to tell it from the one a shutdown
\* signal produces, "closed"); an exhausted pool fails it at once; otherwise
\* an unused id is acquired.
Invoke(c) ==
    /\ ~crashed /\ npc = "ok"
    /\ cpc[c] = "idle"
    /\ IF state = ConnClosed
         THEN /\ cpc' = [cpc EXCEPT ![c] = "returned"]
              /\ cres' = [cres EXCEPT ![c] = "closed_at_entry"]
              /\ UNCHANGED << cid, allocated >>
         ELSE IF allocated = IDs
           THEN /\ cpc' = [cpc EXCEPT ![c] = "returned"]
                /\ cres' = [cres EXCEPT ![c] = "exhausted"]
                /\ UNCHANGED << cid, allocated >>
           ELSE \E i \in IDs \ allocated :
                /\ allocated' = allocated \cup {i}
                /\ cid' = [cid EXCEPT ![c] = i]
                /\ cpc' = [cpc EXCEPT ![c] = "acquired"]
                /\ UNCHANGED cres
    /\ UNCHANGED << connVars, chanVars, requests, readerVars, npc,
                    startVars, tpc, cgot, kpc, crashed, countVars >>
    /\ Observe

\* The range loop of the drain is running (between two of its iterations or
\* blocked inside one).
Draining == spc \in {"drain", "signal"}

\* c.requests[id] = r under the table lock, then the command is written to
\* the connection (on a closed connection the write fails and the invocation
\* leaves with the error); the invocation then blocks on its completion
\* channels.  While the unlocked range of the drain is running the insert is
\* a data race on the map: the runtime may abort ("concurrent map iteration
\* and map write"), and otherwise the new entry is produced by the range or
\* skipped.
Register(c) ==
    /\ ~crashed /\ cpc[c] = "acquired"
    /\ \/ /\ requests' = [requests EXCEPT ![cid[c]] = c]
          /\ IF connClosed
               THEN /\ cpc' = [cpc EXCEPT ![c] = "leaving"]
                    /\ cres' = [cres EXCEPT ![c] = "write_error"]
               ELSE /\ cpc' = [cpc EXCEPT ![c] = "waiting"]
                    /\ UNCHANGED cres
          /\ \/ visited' = visited \ {cid[c]}
             \/ Draining /\ visited' = visited \cup {cid[c]}
          /\ UNCHANGED crashed
       \/ /\ spc = "drain"
          /\ crashed' = TRUE
          /\ UNCHANGED << requests, cpc, cres, visited >>
    /\ UNCHANGED << connVars, chanVars, allocated, readerVars, npc,
                    spc, sev, sreq, tpc, cid, cgot, kpc, countVars >>
    /\ Observe

\* The caller's cancellation / timeout fires while it waits.
Cancel(c) ==
    /\ ~crashed /\ cpc[c] = "waiting"
    /\ cpc' = [cpc EXCEPT ![c] = "leaving"]
    /\ cres' = [cres EXCEPT ![c] = "cancelled"]
    /\ UNCHANGED << connVars, chanVars, tableVars, readerVars, npc,
                    startVars, tpc, cid, cgot, kpc, crashed, countVars >>
    /\ Observe

\* Faulty variant of Cleanup: a cancelled invocation returns without
\* removing its entry and without releasing its id.
CleanupLeaksOnCancel(c) ==
    /\ ~crashed /\ cpc[c] = "leaving"
    /\ IF cres[c] = "cancelled"
         THEN UNCHANGED << requests, allocated >>
         ELSE /\ requests' = [requests EXCEPT ![cid[c]] = 0]
              /\ allocated' = allocated \ {cid[c]}
    /\ cpc' = [cpc EXCEPT ![c] = "returned"]
    /\ cid' = [cid EXCEPT ![c] = 0]
    /\ cgot' = [cgot EXCEPT ![c] = NoEvent]
    /\ UNCHANGED << connVars, chanVars, readerVars, npc, startVars,
                    tpc, cres, kpc, crashed, countVars >>
    /\ Observe

\* On every exit: remove the entry under the table lock and release the id;
\* the request object is dropped and the call returns its result (cres).
\* Racing with the unlocked range of the drain the runtime may abort.
Cleanup(c) ==
    /\ ~crashed /\ cpc[c] = "leaving"
    /\ \/ /\ requests' = [requests EXCEPT ![cid[c]] = 0]
          /\ allocated' = allocated \ {cid[c]}
          /\ cpc' = [cpc EXCEPT ![c] = "returned"]
          /\ cid' = [cid EXCEPT ![c] = 0]
          /\ cgot' = [cgot EXCEPT ![c] = NoEvent]
          /\ UNCHANGED crashed
       \/ /\ spc = "drain"
          /\ crashed' = TRUE
          /\ UNCHANGED << requests, allocated, cpc, cid, cgot >>
    /\ UNCHANGED << connVars, chanVars, readerVars, npc, startVars,
                    tpc, cres, kpc, countVars >>
    /\ Observe

(* ================= Consumer of Notifications() ================= *)

\* notification, ok := <-client.Notifications()   with ok = true
Consume ==
    /\ ~crashed /\ npc = "ok" /\ kpc = "reading"
    /\ notification # << >>
    /\ notification' = Tail(notification)
    /\ UNCHANGED << connVars, events, eventsClosed, notifClosed,
                    tableVars, readerVars, npc, startVars, tpc, callerVars,
                    kpc, crashed, countVars >>
    /\ Observe

\* ... with ok = false: the sink is closed and drained (main.go:115-117)
ConsumeEnd ==
    /\ ~crashed /\ npc = "ok" /\ kpc = "reading"
    /\ notification = << >> /\ notifClosed
    /\ kpc' = "ended"
    /\ UNCHANGED << connVars, chanVars, tableVars, readerVars, npc,
                    startVars, tpc, callerVars, crashed, countVars >>
    /\ Observe

(* ================== Framing (readEvents, one iteration) ================ *)

\* The two record terminators, and the other bytes of the stream.
ETX == "ETX"
ETB == "ETB"
Bytes == {"a", "b", ETX, ETB}

MaxChunk == 2       \* bytes one Read returns at most
MaxCarry == 3       \* unterminated bytes remembered in `carried`

RECURSIVE SeqsUpTo(_, _)
SeqsUpTo(S, n) ==
    IF n = 0 THEN { << >> }
    ELSE LET shorter == SeqsUpTo(S, n - 1)
         IN shorter \cup { Append(q, b) : q \in shorter, b \in S }

\* What decoder.Read can return with a nil error.
Chunks == SeqsUpTo(Bytes, MaxChunk) \ { << >> }

\* buf[n-1] == ETX || buf[n-1] == ETB
Terminated(chunk) ==
    chunk # << >> /\ (chunk[Len(chunk)] = ETX \/ chunk[Len(chunk)] = ETB)

\* A reader that kept the unterminated bytes and prepended them.
RawEventReassembled(earlier, chunk) == earlier \o chunk

\* rawEvent := string(buf[:n]): the chunk just read and nothing else; buf is
\* allocated afresh in every iteration.
RawEvent(earlier, chunk) == chunk

\* One iteration of the read loop over the bytes `chunk`.
ReadChunk(chunk) ==
    /\ Terminated(chunk) \/ Len(carried) + Len(buf) + Len(chunk) <= MaxCarry
    /\ carried' = IF buf # << >> /\ ~Terminated(buf)
                    THEN carried \o buf ELSE << >>
    /\ buf' = chunk
    /\ rawEvent' = IF Terminated(chunk)
                     THEN RawEvent(carried', chunk) ELSE << >>
    /\ UNCHANGED << histVars, connVars, chanVars, tableVars, readerVars, npc,
                    startVars, tpc, callerVars, kpc, crashed, countVars >>

(* ============================ Specification ============================ *)

ReaderStep == Enqueue \/ ReadOnClosed

StartStep ==
    \/ StartRecvEvent
    \/ StartSendNotification
    \/ StartDeliver
    \/ StartRecvShutdownFromReader
    \/ \E t \in Stoppers : StartRecvShutdownFromStop(t)
    \/ StartStoreClosed
    \/ StartCloseConn
    \/ StartCloseNotification
    \/ StartCloseEvents
    \/ \E i \in IDs : StartDrainNext(i)
    \/ StartSignal
    \/ StartReturn

CallerStep(c) == Register(c) \/ Cleanup(c)

Next ==
    \/ ReadSetDeadlineFails
    \/ \E f \in ReadFailures : ReadFails(f)
    \/ ReadOnClosed
    \/ \E e \in FirstEvents \cup LaterEvents : ReadRecord(e)
    \/ ReadMalformed
    \/ ReadUnterminated
    \/ Enqueue
    \/ NewClientRecv
    \/ StartCall
    \/ StartStep
    \/ \E t \in Stoppers : StopCall(t)
    \/ \E c \in Callers : Invoke(c)
    \/ \E c \in Callers : CallerStep(c)
    \/ \E c \in Callers : Cancel(c)
    \/ Consume
    \/ ConsumeEnd

Spec == Init /\ [][Next]_vars

\* Fairness the Go scheduler provides: a goroutine that can run does run.
\* What the environment decides (what the server sends and when, whether
\* Start, Stop or a command is called, whether a caller cancels, whether
\* anybody reads the sink) gets none.
Fairness ==
    /\ WF_vars(ReaderStep)
    /\ WF_vars(NewClientRecv)
    /\ WF_vars(StartStep)
    /\ \A c \in Callers : WF_vars(CallerStep(c))

FairSpec == Init /\ [][Next]_vars /\ Fairness

\* The program with the history of its event path recorded.
TracedSpec == TracedInit /\ [][Next]_vars

\* The read loop alone, over every sequence of chunks.
FramingNext == \E chunk \in Chunks : ReadChunk(chunk)

FramingSpec == Init /\ [][FramingNext]_vars

\* The same, with a consumer that keeps reading the sink.
FairSpecConsuming ==
    Init /\ [][Next]_vars /\ Fairness /\ WF_vars(Consume \/ ConsumeEnd)


(* =============================== Claims =============================== *)

\* Start is inside the shutdown sequence (main.go:347-365).
ShuttingDown ==
    spc \in {"store", "close_conn", "close_notification", "close_events",
             "drain", "signal"}

\* C1: every request that is in the table and blocked while the shutdown
\* sequence runs is eventually unblocked.  (Excused: a process that died,
\* and runs in which some invocation was cancelled -- cancellation is a
\* requirement of the specification the code may not implement.)  Checked
\* under FairSpec.
C1_PendingUnblockedOnShutdown ==
    \A c \in Callers :
        (ShuttingDown /\ cpc[c] = "waiting" /\ requests[cid[c]] = c)
            ~> \/ cpc[c] # "waiting"
               \/ crashed
               \/ \E d \in Callers : cres[d] = "cancelled"

\* C2: an invocation only ever receives an Event whose invokeId is the id
\* it registered under, whatever the number of pending commands and the
\* order of the answers.
C2_ResponseOnlyToOwner ==
    \A c \in Callers : cgot[c] # NoEvent => cgot[c].InvokeID = cid[c]

\* Two commands are pending and the one with the higher id has been answered
\* first, the other still waiting.
C2_Witness ==
    \E c, d \in Callers :
        /\ cid[c] # 0 /\ cid[c] < cid[d]
        /\ cpc[c] = "waiting"
        /\ cgot[d] # NoEvent /\ cres[d] = "event"

\* C3: after a failed handshake the connection is closed and the Frame
\* Reader no longer reads.
C3_FailedHandshakeLeavesNoConnection ==
    npc = "failed" => (connClosed /\ rpc \in {"report", "exited"})

\* C4: when the Frame Reader fails before any Event was decoded, NewClient
\* eventually returns the handshake failure.  Checked under FairSpec.
C4_MissingFirstEventFails ==
    (rpc = "report" /\ ~decodedAny /\ npc = "await") ~> (npc = "failed")

\* C5: each step of the shutdown sequence runs at most once, and exactly
\* once when Start has returned, whatever the number of triggers.
C5_ShutdownOnce ==
    /\ nStore <= 1 /\ nCloseNotif <= 1 /\ nCloseEvents <= 1
    /\ spc = "returned" => (nStore = 1 /\ nCloseNotif = 1 /\ nCloseEvents = 1)

\* Start has returned after one Stop call triggered the shutdown, while a
\* second Stop call and the reader's error report are still pending.
C5_Witness ==
    /\ spc = "returned"
    /\ \E t, u \in Stoppers : tpc[t] = "returned" /\ tpc[u] = "sending"
    /\ rpc = "report"

\* C6: an I/O failure of the Frame Reader reported while the Session Loop
\* is running leads to Connection State Closed.  (A dead process is excused,
\* and so is a loop blocked handing a response to an invocation that has
\* cancelled: that case rests on the invocation code.)  Checked under
\* FairSpec.
C6_ReaderFailureLeadsToClosed ==
    (rpc = "report" /\ spc \notin {"not_started", "returned"})
        ~> (state = ConnClosed \/ crashed \/ spc = "deliver")

\* C7: once Connection State is Closed no entry is added to the Request
\* Table, and an invocation that starts fails at once with the
\* connection-closed error.
C7_NoRegistrationOnceClosed ==
    [][ state = ConnClosed =>
          /\ \A i \in IDs : requests[i] = 0 => requests'[i] = 0
          /\ \A c \in Callers :
                (cpc[c] = "idle" /\ cpc'[c] # "idle")
                    => (cpc'[c] = "returned" /\ cres'[c] = "closed_at_entry") ]_vars

\* C8: once the sink is closed nothing is added to it, and a consumer that
\* keeps reading eventually observes its end.  Checked under
\* FairSpecConsuming.
C8_ConsumerObservesClosure ==
    /\ [][notifClosed => Len(notification') <= Len(notification)]_vars
    /\ (notifClosed /\ kpc = "reading") ~> (kpc = "ended")

\* C9: a chunk that yields no Event (a record that fails to decode, or an
\* unterminated chunk) leaves the reader reading, puts nothing on the queue
\* and triggers no shutdown; and every decoded record is put on the queue
\* exactly once, by the reader, as decoded.
C9_DecodeFailureSkipped ==
    [][ /\ (nreads' = nreads + 1 /\ rpc' # "enqueue")
            => (rpc' = "read" /\ events' = events /\ spc' = spc
                /\ state' = state)
        /\ (rpc = "enqueue" /\ rpc' # "enqueue")
            => (rpc' = "read" /\ events' = Append(events, rev))
        /\ Len(events') > Len(events)
            => (rpc = "enqueue" /\ events' = Append(events, rev)) ]_vars

\* A record has been put on the queue after a malformed one was skipped.
C9_Witness == recovered /\ malformedSeen /\ rpc = "read"

\* The invocations that hold an id / that own a table entry.
Holding == { c \in Callers : cpc[c] \in {"acquired", "waiting", "leaving"} }
Owning == { c \in Callers : cpc[c] \in {"waiting", "leaving"} }

Ascending(q) == \A i \in 1..(Len(q) - 1) : q[i] < q[i + 1]

StartTakes ==
    spc = "select" /\ events # << >> /\ events' = Tail(events)

\* C12: a Notification the loop takes is never matched against the table,
\* whatever its InvokeID: the loop goes to `c.notification <- event` with
\* it and with no request selected, that send puts this very event into
\* the sink, and no invocation ever holds a Notification as its response.
C12_NotificationNeverMatched ==
    /\ [](/\ \A c \in Callers : cgot[c].Type # EventTypeNotification
          /\ spc = "deliver" => sev.Type # EventTypeNotification
          /\ spc = "notify" => (sev.Type = EventTypeNotification /\ sreq = 0))
    /\ [][ /\ (StartTakes /\ Head(events).Type = EventTypeNotification)
                => (/\ spc' = "notify" /\ sev' = Head(events)
                    /\ UNCHANGED << tableVars, callerVars >>)
           /\ (spc = "notify" /\ spc' # "notify")
                => (/\ notification' = Append(notification, sev)
                    /\ UNCHANGED << tableVars, callerVars >>) ]_vars

\* A Notification carrying the id of a command that is still pending sits
\* in the sink.
C12_Witness ==
    \E c \in Callers :
        /\ cpc[c] = "waiting" /\ requests[cid[c]] = c
        /\ notification # << >>
        /\ Head(notification).Type = EventTypeNotification
        /\ Head(notification).InvokeID = cid[c]

\* C13: when the loop takes a Response whose InvokeID has no entry in the
\* table, the event goes nowhere: no invocation receives anything, the
\* sink and the table stay as they are, the loop holds no event and is
\* back at its select, ready for the next one.
C13_UnmatchedResponseDropped ==
    [][ (/\ StartTakes
         /\ Head(events).Type # EventTypeNotification
         /\ Lookup(Head(events)) = 0)
           => (/\ spc' = "select" /\ sev' = NoEvent /\ sreq' = 0
               /\ UNCHANGED << notification, notifClosed, tableVars,
                               callerVars >>) ]_vars

\* The loop has dropped an unmatched Response and then taken and forwarded
\* the next event.
C13_Witness ==
    /\ dropped
    /\ sunk # << >>
    /\ \E k \in 1..Len(taken) : k < sunk[Len(sunk)] /\ k > 1
                                  /\ \A j \in 1..Len(notifTaken) :
                                        notifTaken[j] # k

\* C14: the shutdown steps take effect in the order state, connection,
\* sink, queue, signals: each step finds the ones before it done and the
\* ones after it not yet done, so whenever the connection, the sink or the
\* queue is closed, or an invocation has been signalled, c.state is
\* already ConnClosed.
C14_ShutdownStepOrder ==
    /\ connClosed => state = ConnClosed
    /\ notifClosed => connClosed
    /\ eventsClosed => notifClosed
    /\ (\E c \in Callers : cres[c] = "closed") => eventsClosed
    /\ spc = "store" => (state = ConnOK /\ ~connClosed)
    /\ spc = "close_conn" => (state = ConnClosed /\ ~connClosed)
    /\ spc = "close_notification" => (connClosed /\ ~notifClosed)
    /\ spc = "close_events" => (notifClosed /\ ~eventsClosed)
    /\ spc \in {"drain", "signal"} => eventsClosed

\* The last step of the sequence has acted: a pending invocation got its
\* shutdown signal while the loop is still draining the table.
C14_Witness ==
    /\ spc = "drain"
    /\ \E c \in Callers : cres[c] = "closed" /\ cpc[c] = "leaving"
    /\ state = ConnClosed /\ connClosed /\ notifClosed /\ eventsClosed

\* C15: a chunk is handed to decodeEvent only if its last byte is ETX or
\* ETB, and then as it is: a chunk without a terminator at its end yields
\* no text to decode, and its bytes are not part of what a later chunk
\* yields, so a record that arrives in two reads is never decoded as one.
C15_UnterminatedChunkDiscarded ==
    /\ rawEvent # << >> => (Terminated(buf) /\ rawEvent = buf)
    /\ ~Terminated(buf) => rawEvent = << >>
    /\ carried # << >> => rawEvent # carried \o buf

\* The tail of a record, ending in ETX, was read after its head had come
\* in a chunk of its own; the tail alone went to the decoder.
C15_Witness ==
    /\ carried # << >>
    /\ Terminated(buf) /\ buf[Len(buf)] = ETX
    /\ rawEvent = buf

\* C16: Start returns only through the `return ErrConnectionClosed` that
\* ends the shutdown case: when it has returned, c.state is ConnClosed and
\* the connection, the sink and the queue have been closed, each once; it
\* returns from the drain loop only, with every entry of the table
\* signalled; and c.state never goes back from ConnClosed.
C16_StartReturnsOnlyAfterShutdown ==
    /\ [](spc = "returned" =>
            (/\ state = ConnClosed
             /\ connClosed /\ notifClosed /\ eventsClosed
             /\ nStore = 1 /\ nCloseNotif = 1 /\ nCloseEvents = 1))
    /\ [][ (spc' = "returned" /\ spc # "returned")
             => (spc = "drain" /\ Unvisited = {} /\ state = ConnClosed) ]_vars
    /\ [][ state = ConnClosed => state' = ConnClosed ]_vars

\* Start has returned from a shutdown that a Stop call triggered and in
\* which it signalled a pending invocation.
C16_Witness ==
    /\ spc = "returned"
    /\ visited # {}
    /\ \E t \in Stoppers : tpc[t] = "returned"
    /\ state = ConnClosed

\* C17: every call to Stop returns.  Stated for the calls that are at
\* `c.shutdown <- struct{}{}` once Start has returned (a second call, or a
\* call after a shutdown the reader triggered); a dead process is excused.
\* Checked under FairSpec.
C17_StopReturns ==
    \A t \in Stoppers :
        (tpc[t] = "sending" /\ spc = "returned")
            ~> (tpc[t] = "returned" \/ crashed)

\* C18: nobody is at a send on a channel that has been closed: the reader
\* is not at `c.events <- event` with c.events closed, and the loop is not
\* at `c.notification <- event` with c.notification closed.
C18_NoSendOnClosedChannel ==
    /\ ~(rpc = "enqueue" /\ eventsClosed)
    /\ ~(spc = "notify" /\ notifClosed)

\* C19: once Start has returned, the reader goroutine ends (a dead process
\* is excused).  Checked under FairSpec.
C19_ReaderTerminates ==
    (spc = "returned") ~> (rpc = "exited" \/ crashed)

\* C20: a Stop call made while the loop is running leads to Connection
\* State Closed.  (Excused as in C6: a dead process, and a loop blocked
\* handing a response to an invocation that has cancelled.)  Checked under
\* FairSpec.
C20_StopLeadsToClosed ==
    ((\E t \in Stoppers : tpc[t] = "sending")
        /\ spc \notin {"not_started", "returned"})
        ~> (state = ConnClosed \/ crashed \/ spc = "deliver")

====
